---------------------------- MODULE Spec2Model ----------------------------
(***************************************************************************)
(* Model of odrpack.driver.odr (src/src/odrpack/driver.py): the wrapper    *)
(* that validates and normalises the arguments of an orthogonal distance   *)
(* regression problem, sizes or validates the two flat work buffers,       *)
(* invokes the external solver once and decodes the mutated buffers into   *)
(* an OdrResult.                                                           *)
(*                                                                         *)
(* A behaviour is a caller session: the caller owns the arrays x and y,    *)
(* and calls odr a bounded number of times, until a call raises.  One call *)
(* is a walk through the blocks of odr in their textual order; every block *)
(* is an action.                                                           *)
(* numpy arrays are objects on a heap (shape + flat data), so that object  *)
(* identity, copies and views are distinguished.                           *)
(***************************************************************************)
EXTENDS Integers, Sequences, FiniteSets, TLC

(***************************************************************************)
(* Bounds of the exploration.                                              *)
(***************************************************************************)
\* axis lengths of the arrays the caller builds range over 0..MaxDim
MaxDim == 1
\* beta0 holds 0..MaxPar parameters
MaxPar == 2
\* a session spends one unit per call of odr and one per optional feature
\* (an optional array, a job-gated feature, a hand-made restart buffer)
\* that deviates from its default
MaxBudget == 2
\* a hand-made restart buffer is at most BufSlack cells longer or shorter
\* than the required length
BufSlack == 1
\* entries of lower and upper range over 0..MaxVal (beta0 holds ones)
MaxVal == 2

\* the largest axis of x and of the array in the examination of the blocks
\* that check ifixx, stpd and scld on their own
MaxAxis == 3
\* number of decimal digits of the job codes of the job-decoding probes
MaxDigitPos == 6
\* largest magnitude of the status codes of the classification probes
MaxInfo == 70000
\* number of calls of odr that run concurrently
MaxCalls == 2

VARIABLES
    heap,     \* the numpy arrays alive in the session: id -> [shape, data]
    entry,    \* the heap as it was when the running call was entered
    pc,       \* the block of odr the running call is at
    a,        \* the arguments of the running call
    l,        \* the local variables of the running call
    err,      \* the exception raised by the running call
    log,      \* the callbacks and the solver, in the order the call invoked them
    results,  \* the OdrResult objects returned to the caller so far
    snap,     \* the array fields of every result as they were when returned
    spent,    \* the budget the finished calls have used
    probe,    \* the input of a block of odr examined on its own
    out       \* what the block made of the probe

vars == <<heap, entry, pc, a, l, err, log, results, snap, spent, probe, out>>

\* the variables of the examination of single blocks
pure == <<probe, out>>

(***************************************************************************)
(* Shapes and arrays.                                                      *)
(***************************************************************************)
Dims == 0..MaxDim

\* the shape of a 0-dimensional array
Rank0 == {<<>>}
Rank1 == {<<d>> : d \in Dims}
Rank2 == {<<d1, d2>> : d1 \in Dims, d2 \in Dims}
\* arrays of rank 3: every combination of axis lengths for the weights,
\* a leading axis of length one for the others
Rank3 == {<<d1, d2, d3>> : d1 \in Dims, d2 \in Dims, d3 \in Dims}
Rank3Lead == {<<1>> \o s : s \in Rank2}

RECURSIVE Size(_)
\* ndarray.size: the product of the axis lengths
Size(shape) == IF shape = <<>> THEN 1 ELSE Head(shape) * Size(Tail(shape))

\* ndarray.ndim
Ndim(shape) == Len(shape)

\* ndarray.shape[-1]
LastAxis(shape) == shape[Len(shape)]

\* a flat buffer of len cells all holding v
Fill(len, v) == [i \in 1..len |-> v]

\* an array object on the heap
Obj(shape, v) == [shape |-> shape, data |-> Fill(Size(shape), v)]

\* an optional array argument that is not a heap object: None, or its shape
\* and its entries (np.ones(shape) where the entries do not matter)
NoneArr == [given |-> FALSE, shape |-> <<>>, data |-> <<>>]
Arr(shape) == [given |-> TRUE, shape |-> shape, data |-> Fill(Size(shape), 1)]
ArrData(data) == [given |-> TRUE, shape |-> <<Len(data)>>, data |-> data]


(***************************************************************************)
(* The helpers of driver.py and of the compiled extension.                 *)
(***************************************************************************)
RECURSIVE Pow10(_)
Pow10(k) == IF k = 0 THEN 1 ELSE 10 * Pow10(k - 1)

\* _get_digit counting the digits from zero
_get_digit_fromzero(number, ndigit) == (number \div Pow10(ndigit)) % 10

\* _get_digit: the ndigit-th decimal digit of number, counted from the right
_get_digit(number, ndigit) == (number \div Pow10(ndigit - 1)) % 10

\* _interpret_info: the message of a solver status code
_interpret_info(info) ==
    IF info = 1 THEN "Sum of squares convergence."
    ELSE IF info = 2 THEN "Parameter convergence."
    ELSE IF info = 3 THEN "Sum of squares and parameter convergence."
    ELSE IF info = 4 THEN "Iteration limit reached."
    ELSE IF info >= 5
    THEN "Questionable results or fatal errors detected. See report and error message."
    ELSE ""

\* the status fields of the result with the iteration limit counted a success
Classify_limit(info) ==
    [info       |-> info,
     stopreason |-> _interpret_info(info),
     success    |-> info <= 4]

\* the status fields of the result (lines 514-516)
Classify(info) ==
    [info       |-> info,
     stopreason |-> _interpret_info(info),
     success    |-> info < 4]

\* workspace_dimensions of the extension: the required lengths (lwork, liwork)
workspace_dimensions(n, m, npar, nq, isodr) ==
    LET common == 18 + 13*npar + npar*npar + m + m*m + 4*n*nq
                  + 2*n*nq*npar + 5*nq + nq*(npar + m) + n*nq*nq
    IN  << IF isodr
           THEN common + 6*n*m + 2*n*nq*m + nq*nq
           ELSE common + 2*n*m,
           20 + 2*npar + nq*(npar + m) >>

\* dwinf of the extension: the 0-based start of the named fields of work
dwinf(n, m, npar, nq, ldwe, ld2we, isodr) ==
    LET eps  == n*m
        sd   == eps + n*nq + n*m + n*nq
        vcv  == sd + npar
        rvar == vcv + npar*npar
    IN  [eps |-> eps, sd |-> sd, vcv |-> vcv, rvar |-> rvar,
         wss |-> rvar + 1, wssde |-> rvar + 2, wssep |-> rvar + 3,
         rcond |-> rvar + 4]

\* diwinf of the extension: the 0-based start of the named fields of iwork
diwinf(m, npar, nq) ==
    LET istop == nq*npar + nq*m + npar + 2
    IN  [niter |-> istop + 12, nfev |-> istop + 13, njev |-> istop + 14,
         irank |-> istop + 16]

(***************************************************************************)
(* The exceptions of odr.  driver.py raises ValueError throughout (and one *)
(* TypeError); the kinds below are told apart by the message.              *)
(***************************************************************************)
NoError       == "none"
ShapeMismatch == "ShapeMismatch"
InvalidBounds == "InvalidBounds"
Inconsistent  == "InconsistentJobArgument"
SizeMismatch  == "RestartSizeMismatch"
BadType       == "TypeError"

(***************************************************************************)
(* The blocks of odr, as functions of what they read.                      *)
(***************************************************************************)
\* "Interpret job"
JobFlags(job) ==
    [is_odr     |-> _get_digit(job, 1) < 2,
     has_jac    |-> _get_digit(job, 2) > 1,
     has_delta0 |-> _get_digit(job, 4) > 0,
     is_restart |-> _get_digit(job, 5) > 0]

\* ResolveShapes without the check of the rank of y
ResolveShapes_yrank(xs, ys, bs) ==
    LET m    == IF Ndim(xs) = 1 THEN 1 ELSE xs[1]
        nq   == IF Ndim(ys) = 1 THEN 1 ELSE ys[1]
        bad  == [err |-> ShapeMismatch, m |-> 0, nq |-> 0, n |-> 0, npar |-> 0]
    IN  IF Ndim(xs) \notin {1, 2} THEN bad
        ELSE IF Ndim(ys) = 0 THEN bad
        ELSE IF LastAxis(xs) # LastAxis(ys) THEN bad
        ELSE IF Ndim(bs) # 1 THEN bad
        ELSE [err |-> NoError, m |-> m, nq |-> nq, n |-> LastAxis(xs),
              npar |-> Size(bs)]

\* "Check x and y" and the rank of beta0: the dimensions, or the error
ResolveShapes(xs, ys, bs) ==
    LET m    == IF Ndim(xs) = 1 THEN 1 ELSE xs[1]
        nq   == IF Ndim(ys) = 1 THEN 1 ELSE ys[1]
        bad  == [err |-> ShapeMismatch, m |-> 0, nq |-> 0, n |-> 0, npar |-> 0]
    IN  IF Ndim(xs) \notin {1, 2} THEN bad
        ELSE IF Ndim(ys) \notin {1, 2} THEN bad
        ELSE IF LastAxis(xs) # LastAxis(ys) THEN bad
        ELSE IF Ndim(bs) # 1 THEN bad
        ELSE [err |-> NoError, m |-> m, nq |-> nq, n |-> LastAxis(xs),
              npar |-> Size(bs)]

\* np.any(u >= v) for two arrays of one shape
AnyGeq(u, v) == \E i \in 1..Len(u) : u[i] >= v[i]
\* np.any(u <= v)
AnyLeq(u, v) == \E i \in 1..Len(u) : u[i] <= v[i]

\* CheckLower with a lower bound equal to beta0 let through
CheckLower_equal(lower, beta0) ==
    IF lower.given /\ lower.shape # beta0.shape THEN ShapeMismatch
    ELSE IF lower.given /\ (\E i \in 1..Len(lower.data) : lower.data[i] > beta0.data[i])
    THEN InvalidBounds
    ELSE NoError

\* "Check beta0 and related parameters": lower against beta0
CheckLower(lower, beta0) ==
    IF lower.given /\ lower.shape # beta0.shape THEN ShapeMismatch
    ELSE IF lower.given /\ AnyGeq(lower.data, beta0.data) THEN InvalidBounds
    ELSE NoError

\* upper against beta0
CheckUpper(upper, beta0) ==
    IF upper.given /\ upper.shape # beta0.shape THEN ShapeMismatch
    ELSE IF upper.given /\ AnyLeq(upper.data, beta0.data) THEN InvalidBounds
    ELSE NoError

\* ifixb, stpb and sclb against the shape of beta0
CheckSameShape(arr, bshape) ==
    IF arr.given /\ arr.shape # bshape THEN ShapeMismatch ELSE NoError

\* CheckDelta0 with a delta0 used whether or not the job code announces it
CheckDelta0_unflagged(has_delta0, given, dshape, xshape) ==
    IF given
    THEN IF dshape # xshape THEN [err |-> ShapeMismatch, from |-> "none"]
         ELSE [err |-> NoError, from |-> "copy"]
    ELSE IF ~has_delta0 THEN [err |-> NoError, from |-> "zeros"]
    ELSE [err |-> Inconsistent, from |-> "none"]

\* "Check delta0": what the working error delta is made from, or the error
CheckDelta0(has_delta0, given, dshape, xshape) ==
    IF has_delta0 /\ given
    THEN IF dshape # xshape THEN [err |-> ShapeMismatch, from |-> "none"]
         ELSE [err |-> NoError, from |-> "copy"]
    ELSE IF ~has_delta0 /\ ~given THEN [err |-> NoError, from |-> "zeros"]
    ELSE [err |-> Inconsistent, from |-> "none"]

\* np.tile with the entries repeated in place (np.repeat(v, m)) under the
\* shape (m, n)
np_tile_repeat(arr, m) ==
    LET n == Len(arr.data)
    IN  [given |-> TRUE, shape |-> <<m, n>>,
         data  |-> [k \in 1..(m*n) |-> arr.data[((k - 1) \div m) + 1]]]

\* np.tile(v, (m, 1)) for a rank-1 v: m rows, each a copy of v (row-major)
np_tile(arr, m) ==
    LET n == Len(arr.data)
    IN  [given |-> TRUE, shape |-> <<m, n>>,
         data  |-> [k \in 1..(m*n) |-> arr.data[((k - 1) % n) + 1]]]

\* CheckBroadcast with a rank-1 array of length m taken for the (m,) case
\* also when n = m
CheckBroadcast_square(arr, xshape, m, n) ==
    IF arr.given
    THEN IF arr.shape = xshape
         THEN [err |-> NoError, ld |-> n, arr |-> arr]
         ELSE IF arr.shape = <<m>> /\ m > 1
         THEN [err |-> NoError, ld |-> 1, arr |-> arr]
         ELSE IF arr.shape = <<n>> /\ m > 1 /\ n # m
         THEN [err |-> NoError, ld |-> n, arr |-> np_tile(arr, m)]
         ELSE [err |-> ShapeMismatch, ld |-> 0, arr |-> arr]
    ELSE [err |-> NoError, ld |-> 1, arr |-> arr]

\* "Check ifixx", "Check stpd", "Check scld": the leading dimension and the
\* array handed to the solver (np.tile(v, (m, 1)) has shape (m, n))
CheckBroadcast(arr, xshape, m, n) ==
    IF arr.given
    THEN IF arr.shape = xshape
         THEN [err |-> NoError, ld |-> n, arr |-> arr]
         ELSE IF arr.shape = <<m>> /\ m > 1 /\ n # m
         THEN [err |-> NoError, ld |-> 1, arr |-> arr]
         ELSE IF arr.shape = <<n>> /\ m > 1 /\ n # m
         THEN [err |-> NoError, ld |-> n, arr |-> np_tile(arr, m)]
         ELSE [err |-> ShapeMismatch, ld |-> 0, arr |-> arr]
    ELSE [err |-> NoError, ld |-> 1, arr |-> arr]

\* a weight argument: None, a Python scalar, an array, or anything else
NoneW == [kind |-> "none", shape |-> <<>>]
ScalarW == [kind |-> "scalar", shape |-> <<>>]
ArrayW(shape) == [kind |-> "array", shape |-> shape]
OtherW == [kind |-> "other", shape |-> <<>>]

\* CheckWeight with the shape (q, n) tested before (q, q)
CheckWeight_obsfirst(w, q, n) ==
    LET ok(ld, ld2, w2) == [err |-> NoError, ld |-> ld, ld2 |-> ld2, w |-> w2]
    IN  IF w.kind = "none" THEN ok(1, 1, w)
        ELSE IF w.kind = "scalar" THEN ok(1, 1, ArrayW(<<q>>))
        ELSE IF w.kind = "array"
        THEN IF w.shape = <<q>> THEN ok(1, 1, w)
             ELSE IF w.shape = <<q, n>> \/ (w.shape = <<n>> /\ q = 1)
             THEN ok(n, 1, w)
             ELSE IF w.shape = <<q, q>> THEN ok(1, q, w)
             ELSE IF w.shape \in {<<q, 1, 1>>, <<q, 1, n>>, <<q, q, 1>>, <<q, q, n>>}
             THEN ok(w.shape[3], w.shape[2], w)
             ELSE [err |-> ShapeMismatch, ld |-> 0, ld2 |-> 0, w |-> w]
        ELSE [err |-> BadType, ld |-> 0, ld2 |-> 0, w |-> w]

\* CheckWeight with ld and ld2 of the shape (q, n) exchanged
CheckWeight_ldswap(w, q, n) ==
    LET ok(ld, ld2, w2) == [err |-> NoError, ld |-> ld, ld2 |-> ld2, w |-> w2]
    IN  IF w.kind = "none" THEN ok(1, 1, w)
        ELSE IF w.kind = "scalar" THEN ok(1, 1, ArrayW(<<q>>))
        ELSE IF w.kind = "array"
        THEN IF w.shape = <<q>> THEN ok(1, 1, w)
             ELSE IF w.shape = <<q, q>> THEN ok(1, q, w)
             ELSE IF w.shape = <<q, n>> \/ (w.shape = <<n>> /\ q = 1)
             THEN ok(1, n, w)
             ELSE IF w.shape \in {<<q, 1, 1>>, <<q, 1, n>>, <<q, q, 1>>, <<q, q, n>>}
             THEN ok(w.shape[3], w.shape[2], w)
             ELSE [err |-> ShapeMismatch, ld |-> 0, ld2 |-> 0, w |-> w]
        ELSE [err |-> BadType, ld |-> 0, ld2 |-> 0, w |-> w]

\* CheckWeight with the shape (q,) taken as one weight per observation
CheckWeight_diagn(w, q, n) ==
    LET ok(ld, ld2, w2) == [err |-> NoError, ld |-> ld, ld2 |-> ld2, w |-> w2]
    IN  IF w.kind = "none" THEN ok(1, 1, w)
        ELSE IF w.kind = "scalar" THEN ok(1, 1, ArrayW(<<q>>))
        ELSE IF w.kind = "array"
        THEN IF w.shape = <<q>> THEN ok(n, 1, w)
             ELSE IF w.shape = <<q, q>> THEN ok(1, q, w)
             ELSE IF w.shape = <<q, n>> \/ (w.shape = <<n>> /\ q = 1)
             THEN ok(n, 1, w)
             ELSE IF w.shape \in {<<q, 1, 1>>, <<q, 1, n>>, <<q, q, 1>>, <<q, q, n>>}
             THEN ok(w.shape[3], w.shape[2], w)
             ELSE [err |-> ShapeMismatch, ld |-> 0, ld2 |-> 0, w |-> w]
        ELSE [err |-> BadType, ld |-> 0, ld2 |-> 0, w |-> w]

\* "Check we" (q = nq) and "Check wd" (q = m): the descriptor (ld, ld2) and
\* the weight handed to the solver
CheckWeight(w, q, n) ==
    LET ok(ld, ld2, w2) == [err |-> NoError, ld |-> ld, ld2 |-> ld2, w |-> w2]
    IN  IF w.kind = "none" THEN ok(1, 1, w)
        ELSE IF w.kind = "scalar" THEN ok(1, 1, ArrayW(<<q>>))
        ELSE IF w.kind = "array"
        THEN IF w.shape = <<q>> THEN ok(1, 1, w)
             ELSE IF w.shape = <<q, q>> THEN ok(1, q, w)
             ELSE IF w.shape = <<q, n>> \/ (w.shape = <<n>> /\ q = 1)
             THEN ok(n, 1, w)
             ELSE IF w.shape \in {<<q, 1, 1>>, <<q, 1, n>>, <<q, q, 1>>, <<q, q, n>>}
             THEN ok(w.shape[3], w.shape[2], w)
             ELSE [err |-> ShapeMismatch, ld |-> 0, ld2 |-> 0, w |-> w]
        ELSE [err |-> BadType, ld |-> 0, ld2 |-> 0, w |-> w]

\* "Check model function": f0.shape against y.shape
CheckF(f0shape, yshape) ==
    IF f0shape # yshape THEN ShapeMismatch ELSE NoError

\* CheckJac without the check of the number of elements
CheckJac_nosize(has_jac, jac, n, p, nq) ==
    IF has_jac /\ jac.given
    THEN [called |-> TRUE,
          err |-> IF LastAxis(jac.shape) # n THEN ShapeMismatch ELSE NoError,
          fn |-> "user"]
    ELSE IF ~has_jac /\ ~jac.given
    THEN [called |-> FALSE, err |-> NoError, fn |-> "fdummy"]
    ELSE [called |-> FALSE, err |-> Inconsistent, fn |-> "none"]

\* CheckJac with a Jacobian that the job code does not announce ignored
CheckJac_ignored(has_jac, jac, n, p, nq) ==
    IF has_jac /\ jac.given
    THEN [called |-> TRUE,
          err |-> IF LastAxis(jac.shape) # n \/ Size(jac.shape) # n*p*nq
                  THEN ShapeMismatch ELSE NoError,
          fn |-> "user"]
    ELSE IF ~has_jac
    THEN [called |-> FALSE, err |-> NoError, fn |-> "fdummy"]
    ELSE [called |-> FALSE, err |-> Inconsistent, fn |-> "none"]

\* "jacobians": fjacb (p = npar) and fjacd (p = m): whether the Jacobian is
\* called, and the callback handed to the solver or the error
CheckJac(has_jac, jac, n, p, nq) ==
    IF has_jac /\ jac.given
    THEN [called |-> TRUE,
          err |-> IF LastAxis(jac.shape) # n \/ Size(jac.shape) # n*p*nq
                  THEN ShapeMismatch ELSE NoError,
          fn |-> "user"]
    ELSE IF ~has_jac /\ ~jac.given
    THEN [called |-> FALSE, err |-> NoError, fn |-> "fdummy"]
    ELSE [called |-> FALSE, err |-> Inconsistent, fn |-> "none"]

\* CheckWork with the restart branch taken when either buffer is supplied
CheckWork_either(is_restart, hasWork, hasIwork, wsize, iwsize, lwork, liwork) ==
    IF ~is_restart /\ ~hasWork /\ ~hasIwork THEN [err |-> NoError, alloc |-> TRUE]
    ELSE IF is_restart /\ (hasWork \/ hasIwork)
    THEN IF wsize # lwork THEN [err |-> SizeMismatch, alloc |-> FALSE]
         ELSE IF iwsize # liwork THEN [err |-> SizeMismatch, alloc |-> FALSE]
         ELSE [err |-> NoError, alloc |-> FALSE]
    ELSE [err |-> Inconsistent, alloc |-> FALSE]

\* CheckWork without the length check of iwork
CheckWork_noiwork(is_restart, hasWork, hasIwork, wsize, iwsize, lwork, liwork) ==
    IF ~is_restart /\ ~hasWork /\ ~hasIwork THEN [err |-> NoError, alloc |-> TRUE]
    ELSE IF is_restart /\ hasWork /\ hasIwork
    THEN IF wsize # lwork THEN [err |-> SizeMismatch, alloc |-> FALSE]
         ELSE [err |-> NoError, alloc |-> FALSE]
    ELSE [err |-> Inconsistent, alloc |-> FALSE]

\* CheckWork with work.size compared with the length required of iwork
CheckWork_swapped(is_restart, hasWork, hasIwork, wsize, iwsize, lwork, liwork) ==
    IF ~is_restart /\ ~hasWork /\ ~hasIwork THEN [err |-> NoError, alloc |-> TRUE]
    ELSE IF is_restart /\ hasWork /\ hasIwork
    THEN IF wsize # liwork THEN [err |-> SizeMismatch, alloc |-> FALSE]
         ELSE IF iwsize # liwork THEN [err |-> SizeMismatch, alloc |-> FALSE]
         ELSE [err |-> NoError, alloc |-> FALSE]
    ELSE [err |-> Inconsistent, alloc |-> FALSE]

\* "Check/allocate work arrays": allocate, use the supplied buffers, or the
\* error; wsize and iwsize are work.size and iwork.size of supplied buffers
CheckWork(is_restart, hasWork, hasIwork, wsize, iwsize, lwork, liwork) ==
    IF ~is_restart /\ ~hasWork /\ ~hasIwork THEN [err |-> NoError, alloc |-> TRUE]
    ELSE IF is_restart /\ hasWork /\ hasIwork
    THEN IF wsize # lwork THEN [err |-> SizeMismatch, alloc |-> FALSE]
         ELSE IF iwsize # liwork THEN [err |-> SizeMismatch, alloc |-> FALSE]
         ELSE [err |-> NoError, alloc |-> FALSE]
    ELSE [err |-> Inconsistent, alloc |-> FALSE]

\* After with the solver called before the work arrays are checked
After_solverfirst(stage) ==
    CASE stage = "begin"  -> "lower"
      [] stage = "lower"  -> "upper"
      [] stage = "upper"  -> "ifixb"
      [] stage = "ifixb"  -> "stpb"
      [] stage = "stpb"   -> "sclb"
      [] stage = "sclb"   -> "delta0"
      [] stage = "delta0" -> "ifixx"
      [] stage = "ifixx"  -> "stpd"
      [] stage = "stpd"   -> "scld"
      [] stage = "scld"   -> "we"
      [] stage = "we"     -> "wd"
      [] stage = "wd"     -> "f"
      [] stage = "f"      -> "fjacb"
      [] stage = "fjacb"  -> "fjacd"
      [] stage = "fjacd"  -> "solver"
      [] stage = "solver" -> "work"
      [] stage = "work"   -> "result"
      [] stage = "result" -> "returned"

\* After with the model function evaluated before the weights are checked
After_fearly(stage) ==
    CASE stage = "begin"  -> "lower"
      [] stage = "lower"  -> "upper"
      [] stage = "upper"  -> "ifixb"
      [] stage = "ifixb"  -> "stpb"
      [] stage = "stpb"   -> "sclb"
      [] stage = "sclb"   -> "delta0"
      [] stage = "delta0" -> "ifixx"
      [] stage = "ifixx"  -> "stpd"
      [] stage = "stpd"   -> "scld"
      [] stage = "scld"   -> "f"
      [] stage = "f"      -> "we"
      [] stage = "we"     -> "wd"
      [] stage = "wd"     -> "fjacb"
      [] stage = "fjacb"  -> "fjacd"
      [] stage = "fjacd"  -> "work"
      [] stage = "work"   -> "solver"
      [] stage = "solver" -> "result"
      [] stage = "result" -> "returned"

\* the textual order of the blocks of odr
After(stage) ==
    CASE stage = "begin"  -> "lower"
      [] stage = "lower"  -> "upper"
      [] stage = "upper"  -> "ifixb"
      [] stage = "ifixb"  -> "stpb"
      [] stage = "stpb"   -> "sclb"
      [] stage = "sclb"   -> "delta0"
      [] stage = "delta0" -> "ifixx"
      [] stage = "ifixx"  -> "stpd"
      [] stage = "stpd"   -> "scld"
      [] stage = "scld"   -> "we"
      [] stage = "we"     -> "wd"
      [] stage = "wd"     -> "f"
      [] stage = "f"      -> "fjacb"
      [] stage = "fjacb"  -> "fjacd"
      [] stage = "fjacd"  -> "work"
      [] stage = "work"   -> "solver"
      [] stage = "solver" -> "result"
      [] stage = "result" -> "returned"

(***************************************************************************)
(* The heap.                                                               *)
(***************************************************************************)
\* ndarray.copy(): a new object with the shape and the data of object id
Copy(h, id) == Append(h, h[id])

\* an array as the caller holds it: len cells of object obj from the 0-based
\* offset off, seen under shape
Ref(obj, off, len, shape) == [obj |-> obj, off |-> off, len |-> len, shape |-> shape]

\* the whole of object id
Whole(h, id) == Ref(id, 0, Len(h[id].data), h[id].shape)

\* beta = beta0 without the copy: the caller's array itself
beta0_copy_alias(h, id) == [heap |-> h, id |-> id]

\* beta0.copy()
beta0_copy(h, id) == [heap |-> Copy(h, id), id |-> Len(h) + 1]

\* delta0.copy()
delta0_copy(h, id) == [heap |-> Copy(h, id), id |-> Len(h) + 1]

\* zeros served from a pool: an array of the shape that exists already is
\* handed out again
zeros_pooled(h, shape) ==
    LET same == {i \in DOMAIN h : h[i].shape = shape}
    IN  IF same = {} THEN [heap |-> Append(h, Obj(shape, 0)), id |-> Len(h) + 1]
        ELSE [heap |-> h, id |-> CHOOSE i \in same : \A j \in same : j <= i]

\* np.zeros_like(x), np.zeros(len)
zeros(h, shape) == [heap |-> Append(h, Obj(shape, 0)), id |-> Len(h) + 1]

\* the cells a reference denotes (a slice clips at the end of the buffer)
RefVal(h, r) ==
    LET d  == h[r.obj].data
        hi == IF r.off + r.len > Len(d) THEN Len(d) ELSE r.off + r.len
    IN  SubSeq(d, r.off + 1, hi)

\* SliceCopy without the copy: buf[off:off+len], a view of the buffer
SliceCopy_view(h, id, off, len) ==
    [heap |-> h, ref |-> Ref(id, off, len, <<len>>)]

\* buf[off:off+len].copy(): the slice as a new object of its own
SliceCopy(h, id, off, len) ==
    LET d == RefVal(h, Ref(id, off, len, <<len>>))
    IN  [heap |-> Append(h, [shape |-> <<Len(d)>>, data |-> d]),
         ref  |-> Ref(Len(h) + 1, 0, Len(d), <<Len(d)>>)]

\* np.reshape(v, shape): the same cells under another shape
Reshape(r, shape) == [r EXCEPT !.shape = shape]

\* buf[idx]: a scalar read (idx is in range: the lengths were checked)
At(h, id, idx) ==
    IF idx + 1 \in DOMAIN h[id].data THEN h[id].data[idx + 1] ELSE -1

\* the external solver writes beta, delta, work and iwork in place
SolverWrite(h, ids) ==
    [i \in DOMAIN h |->
        IF i \in ids
        THEN [h[i] EXCEPT !.data = [k \in DOMAIN h[i].data |-> h[i].data[k] + 1]]
        ELSE h[i]]

\* u + v for two arrays of one size: a new object
AddArrays(h, shape, u, v) ==
    Append(h, [shape |-> shape,
               data  |-> [k \in 1..Len(u) |-> u[k] + (IF k \in DOMAIN v THEN v[k] ELSE 0)]])

(***************************************************************************)
(* The inputs.                                                             *)
(***************************************************************************)
\* the job codes: digit 1 (ODR or OLS), digit 2 (Jacobians), digit 4
\* (delta0), digit 5 (restart)
Jobs == {d1 + 10*d2 + 1000*d4 + 10000*d5 :
            d1 \in {0, 2}, d2 \in {0, 2}, d4 \in {0, 1}, d5 \in {0, 1}}

\* the status codes the solver returns
SolverInfos == {1, 4}

XYShapes == Rank0 \cup Rank1 \cup Rank2 \cup Rank3Lead
BetaShapes == Rank0 \cup {<<d>> : d \in 0..MaxPar} \cup Rank2
ArrShapes == Rank1 \cup Rank2
WeightShapes == Rank1 \cup Rank2 \cup Rank3

\* the arguments of odr at their defaults (arrays on the heap by id, 0: None)
A0 == [job |-> 0, x |-> 0, y |-> 0, beta0 |-> 0,
       lower |-> NoneArr, upper |-> NoneArr,
       ifixb |-> NoneArr, stpb |-> NoneArr, sclb |-> NoneArr,
       delta0 |-> 0,
       ifixx |-> NoneArr, stpd |-> NoneArr, scld |-> NoneArr,
       we |-> NoneW, wd |-> NoneW,
       f |-> <<>>, fjacb |-> NoneArr, fjacd |-> NoneArr,
       work |-> 0, iwork |-> 0, handmade |-> FALSE]

\* the local variables of odr before they are assigned
L0 == [is_odr |-> FALSE, has_jac |-> FALSE, has_delta0 |-> FALSE,
       is_restart |-> FALSE,
       m |-> 0, nq |-> 0, n |-> 0, npar |-> 0, beta |-> 0, delta |-> 0,
       ldifx |-> 0, ifixx |-> NoneArr, ldstpd |-> 0, stpd |-> NoneArr,
       ldscld |-> 0, scld |-> NoneArr,
       ldwe |-> 0, ld2we |-> 0, we |-> NoneW,
       ldwd |-> 0, ld2wd |-> 0, wd |-> NoneW,
       fjacb |-> "none", fjacd |-> "none",
       lwork |-> 0, liwork |-> 0, work |-> 0, iwork |-> 0, info |-> 0]

NoErr == [kind |-> NoError, at |-> "none"]

B2N(b) == IF b THEN 1 ELSE 0

\* the optional features of a call that deviate from their default
Devs(args, yshape) ==
      B2N(args.lower.given) + B2N(args.upper.given) + B2N(args.ifixb.given)
    + B2N(args.stpb.given) + B2N(args.sclb.given)
    + B2N(JobFlags(args.job).has_delta0 \/ args.delta0 # 0)
    + B2N(args.ifixx.given) + B2N(args.stpd.given) + B2N(args.scld.given)
    + B2N(args.we.kind # "none") + B2N(args.wd.kind # "none")
    + B2N(args.f # yshape /\ args.y # 0)
    + B2N(JobFlags(args.job).has_jac \/ args.fjacb.given \/ args.fjacd.given)
    + B2N(args.handmade)

\* the budget lets the running call have the arguments args
Affordable(args) == spent + Devs(args, heap[2].shape) <= MaxBudget

(***************************************************************************)
(* The session.                                                            *)
(***************************************************************************)
Init ==
    /\ \E xs \in XYShapes, ys \in XYShapes :
          heap = <<Obj(xs, 0), Obj(ys, 0)>>
    /\ entry = heap
    /\ pc = "idle"
    /\ a = A0
    /\ l = L0
    /\ err = NoErr
    /\ log = <<>>
    /\ results = <<>>
    /\ snap = <<>>
    /\ spent = 0
    /\ probe = <<>>
    /\ out = <<>>

\* an invocation of a callback or of the solver: what is called, and the
\* arrays (by id) it is called with
Called(fn, args) == [fn |-> fn, args |-> args]

\* the block at stage ends: it raised e, or control goes on to the next block
Goto(stage, e) ==
    /\ pc' = IF e = NoError THEN After(stage) ELSE "raised"
    /\ err' = IF e = NoError THEN err ELSE [kind |-> e, at |-> stage]

\* lines 257-292: the call is entered; job is decoded, the shapes of x, y
\* and beta0 are resolved and beta0 is copied into beta
Begin ==
    /\ pc \in {"idle", "returned"}
    /\ \E job \in Jobs, bs \in BetaShapes :
          LET used == spent + Devs(a, heap[2].shape) + 1
              b0   == Len(heap) + 1
              h1   == Append(heap, Obj(bs, 1))
              r    == ResolveShapes(heap[1].shape, heap[2].shape, bs)
              fl   == JobFlags(job)
              args == [A0 EXCEPT !.job = job, !.x = 1, !.y = 2, !.beta0 = b0,
                                 !.f = heap[2].shape]
              loc  == [L0 EXCEPT !.is_odr = fl.is_odr, !.has_jac = fl.has_jac,
                                 !.has_delta0 = fl.has_delta0,
                                 !.is_restart = fl.is_restart]
          IN  /\ used + Devs(args, heap[2].shape) <= MaxBudget
              /\ spent' = used
              /\ a' = args
              /\ entry' = h1
              /\ log' = <<>>
              /\ heap' = IF r.err = NoError THEN beta0_copy(h1, b0).heap ELSE h1
              /\ l' = IF r.err = NoError
                      THEN [loc EXCEPT !.m = r.m, !.nq = r.nq, !.n = r.n,
                                       !.npar = r.npar,
                                       !.beta = beta0_copy(h1, b0).id]
                      ELSE loc
              /\ pc' = IF r.err = NoError THEN After("begin") ELSE "raised"
              /\ err' = IF r.err = NoError THEN NoErr
                        ELSE [kind |-> r.err, at |-> "begin"]
    /\ UNCHANGED <<pure, results, snap>>

\* the values lower and upper may take for a beta0 of shape bshape
BoundChoices(bshape) ==
    {NoneArr}
    \cup {[given |-> TRUE, shape |-> bshape, data |-> d] :
             d \in [1..Size(bshape) -> 0..MaxVal]}
    \cup {Arr(sh) : sh \in ArrShapes \ {bshape}}

ArrChoices == {NoneArr} \cup {Arr(sh) : sh \in ArrShapes}
DeltaChoices == {NoneArr} \cup {Arr(sh) : sh \in XYShapes}
WeightChoices == {NoneW, ScalarW, OtherW} \cup {ArrayW(sh) : sh \in WeightShapes}
JacChoices == {NoneArr} \cup {Arr(sh) : sh \in WeightShapes}

\* lines 294-298
Lower ==
    /\ pc = "lower"
    /\ \E lo \in BoundChoices(heap[a.beta0].shape) :
          LET args == [a EXCEPT !.lower = lo]
          IN  /\ Affordable(args)
              /\ a' = args
              /\ Goto("lower", CheckLower(lo, heap[a.beta0]))
    /\ UNCHANGED <<pure, heap, entry, l, log, results, snap, spent>>

\* lines 300-304
Upper ==
    /\ pc = "upper"
    /\ \E up \in BoundChoices(heap[a.beta0].shape) :
          LET args == [a EXCEPT !.upper = up]
          IN  /\ Affordable(args)
              /\ a' = args
              /\ Goto("upper", CheckUpper(up, heap[a.beta0]))
    /\ UNCHANGED <<pure, heap, entry, l, log, results, snap, spent>>

\* lines 306-307
Ifixb ==
    /\ pc = "ifixb"
    /\ \E v \in ArrChoices :
          LET args == [a EXCEPT !.ifixb = v]
          IN  /\ Affordable(args)
              /\ a' = args
              /\ Goto("ifixb", CheckSameShape(v, heap[a.beta0].shape))
    /\ UNCHANGED <<pure, heap, entry, l, log, results, snap, spent>>

\* lines 309-310
Stpb ==
    /\ pc = "stpb"
    /\ \E v \in ArrChoices :
          LET args == [a EXCEPT !.stpb = v]
          IN  /\ Affordable(args)
              /\ a' = args
              /\ Goto("stpb", CheckSameShape(v, heap[a.beta0].shape))
    /\ UNCHANGED <<pure, heap, entry, l, log, results, snap, spent>>

\* lines 312-313
Sclb ==
    /\ pc = "sclb"
    /\ \E v \in ArrChoices :
          LET args == [a EXCEPT !.sclb = v]
          IN  /\ Affordable(args)
              /\ a' = args
              /\ Goto("sclb", CheckSameShape(v, heap[a.beta0].shape))
    /\ UNCHANGED <<pure, heap, entry, l, log, results, snap, spent>>

\* lines 315-323: delta is a copy of delta0, or zeros of the shape of x
Delta0 ==
    /\ pc = "delta0"
    /\ \E d \in DeltaChoices :
          LET did  == IF d.given THEN Len(heap) + 1 ELSE 0
              h1   == IF d.given THEN Append(heap, Obj(d.shape, 1)) ELSE heap
              args == [a EXCEPT !.delta0 = did]
              c    == CheckDelta0(l.has_delta0, d.given, d.shape, heap[a.x].shape)
              made == IF c.from = "copy" THEN delta0_copy(h1, did)
                      ELSE IF c.from = "zeros" THEN zeros(h1, heap[a.x].shape)
                      ELSE [heap |-> h1, id |-> 0]
          IN  /\ Affordable(args)
              /\ a' = args
              /\ heap' = made.heap
              /\ entry' = IF d.given THEN entry @@ (did :> h1[did]) ELSE entry
              /\ l' = [l EXCEPT !.delta = made.id]
              /\ Goto("delta0", c.err)
    /\ UNCHANGED <<pure, log, results, snap, spent>>

\* lines 325-338
Ifixx ==
    /\ pc = "ifixx"
    /\ \E v \in ArrChoices :
          LET args == [a EXCEPT !.ifixx = v]
              c    == CheckBroadcast(v, heap[a.x].shape, l.m, l.n)
          IN  /\ Affordable(args)
              /\ a' = args
              /\ l' = [l EXCEPT !.ldifx = c.ld, !.ifixx = c.arr]
              /\ Goto("ifixx", c.err)
    /\ UNCHANGED <<pure, heap, entry, log, results, snap, spent>>

\* lines 340-353
Stpd ==
    /\ pc = "stpd"
    /\ \E v \in ArrChoices :
          LET args == [a EXCEPT !.stpd = v]
              c    == CheckBroadcast(v, heap[a.x].shape, l.m, l.n)
          IN  /\ Affordable(args)
              /\ a' = args
              /\ l' = [l EXCEPT !.ldstpd = c.ld, !.stpd = c.arr]
              /\ Goto("stpd", c.err)
    /\ UNCHANGED <<pure, heap, entry, log, results, snap, spent>>

\* lines 355-368
Scld ==
    /\ pc = "scld"
    /\ \E v \in ArrChoices :
          LET args == [a EXCEPT !.scld = v]
              c    == CheckBroadcast(v, heap[a.x].shape, l.m, l.n)
          IN  /\ Affordable(args)
              /\ a' = args
              /\ l' = [l EXCEPT !.ldscld = c.ld, !.scld = c.arr]
              /\ Goto("scld", c.err)
    /\ UNCHANGED <<pure, heap, entry, log, results, snap, spent>>

\* lines 370-396
We ==
    /\ pc = "we"
    /\ \E w \in WeightChoices :
          LET args == [a EXCEPT !.we = w]
              c    == CheckWeight(w, l.nq, l.n)
          IN  /\ Affordable(args)
              /\ a' = args
              /\ l' = [l EXCEPT !.ldwe = c.ld, !.ld2we = c.ld2, !.we = c.w]
              /\ Goto("we", c.err)
    /\ UNCHANGED <<pure, heap, entry, log, results, snap, spent>>

\* lines 398-424
Wd ==
    /\ pc = "wd"
    /\ \E w \in WeightChoices :
          LET args == [a EXCEPT !.wd = w]
              c    == CheckWeight(w, l.m, l.n)
          IN  /\ Affordable(args)
              /\ a' = args
              /\ l' = [l EXCEPT !.ldwd = c.ld, !.ld2wd = c.ld2, !.wd = c.w]
              /\ Goto("wd", c.err)
    /\ UNCHANGED <<pure, heap, entry, log, results, snap, spent>>

\* lines 426-430: f is evaluated at (beta0, x); f0sh is the shape it returns
F ==
    /\ pc = "f"
    /\ \E f0sh \in XYShapes :
          LET args == [a EXCEPT !.f = f0sh]
          IN  /\ Affordable(args)
              /\ a' = args
              /\ log' = Append(log, Called("f", <<a.beta0, a.x>>))
              /\ Goto("f", CheckF(f0sh, heap[a.y].shape))
    /\ UNCHANGED <<pure, heap, entry, l, results, snap, spent>>

\* lines 434-442
Fjacb ==
    /\ pc = "fjacb"
    /\ \E j \in JacChoices :
          LET args == [a EXCEPT !.fjacb = j]
              c    == CheckJac(l.has_jac, j, l.n, l.npar, l.nq)
          IN  /\ Affordable(args)
              /\ a' = args
              /\ log' = IF c.called
                        THEN Append(log, Called("fjacb", <<a.beta0, a.x>>))
                        ELSE log
              /\ l' = [l EXCEPT !.fjacb = c.fn]
              /\ Goto("fjacb", c.err)
    /\ UNCHANGED <<pure, heap, entry, results, snap, spent>>

\* lines 444-452
Fjacd ==
    /\ pc = "fjacd"
    /\ \E j \in JacChoices :
          LET args == [a EXCEPT !.fjacd = j]
              c    == CheckJac(l.has_jac, j, l.n, l.m, l.nq)
          IN  /\ Affordable(args)
              /\ a' = args
              /\ log' = IF c.called
                        THEN Append(log, Called("fjacd", <<a.beta0, a.x>>))
                        ELSE log
              /\ l' = [l EXCEPT !.fjacd = c.fn]
              /\ Goto("fjacd", c.err)
    /\ UNCHANGED <<pure, heap, entry, results, snap, spent>>

\* what the caller may pass as a restart buffer: None, a buffer of an
\* earlier result, or a hand-made array of about the required length
BufChoices(prev, required) ==
    {[kind |-> "none", id |-> 0, len |-> 0]}
    \cup {[kind |-> "prev", id |-> i, len |-> 0] : i \in prev}
    \cup {[kind |-> "made", id |-> 0, len |-> k] :
             k \in {required + d : d \in (0 - BufSlack)..BufSlack} \cap Nat}

\* lines 454-468: the buffers are allocated, or the supplied ones are checked
Work ==
    /\ pc = "work"
    /\ LET dims   == workspace_dimensions(l.n, l.m, l.npar, l.nq, l.is_odr)
           lwork  == dims[1]
           liwork == dims[2]
           prevW  == {results[i].work.obj : i \in DOMAIN results}
           prevI  == {results[i].iwork.obj : i \in DOMAIN results}
       IN  \E w \in BufChoices(prevW, lwork), iw \in BufChoices(prevI, liwork) :
              LET h1   == IF w.kind = "made"
                          THEN Append(heap, Obj(<<w.len>>, 1)) ELSE heap
                  wid  == IF w.kind = "made" THEN Len(h1) ELSE w.id
                  h2   == IF iw.kind = "made"
                          THEN Append(h1, Obj(<<iw.len>>, 1)) ELSE h1
                  iwid == IF iw.kind = "made" THEN Len(h2) ELSE iw.id
                  args == [a EXCEPT !.work = wid, !.iwork = iwid,
                                    !.handmade = (w.kind = "made" \/ iw.kind = "made")]
                  c    == CheckWork(l.is_restart, wid # 0, iwid # 0,
                                    IF wid # 0 THEN Len(h2[wid].data) ELSE 0,
                                    IF iwid # 0 THEN Len(h2[iwid].data) ELSE 0,
                                    lwork, liwork)
                  zw   == zeros(h2, <<lwork>>)
                  zi   == zeros(zw.heap, <<liwork>>)
              IN  /\ Affordable(args)
                  /\ a' = args
                  /\ entry' = [i \in DOMAIN entry \cup (({wid, iwid} \ DOMAIN heap) \ {0})
                                  |-> IF i \in DOMAIN entry THEN entry[i] ELSE h2[i]]
                  /\ heap' = IF c.alloc THEN zi.heap ELSE h2
                  /\ l' = [l EXCEPT !.lwork = lwork, !.liwork = liwork,
                                    !.work = IF c.alloc THEN zw.id ELSE wid,
                                    !.iwork = IF c.alloc THEN zi.id ELSE iwid]
                  /\ Goto("work", c.err)
    /\ UNCHANGED <<pure, log, results, snap, spent>>

\* lines 470-486: the solver runs once, writes beta, delta, work and iwork in
\* place and returns its status code
Solver ==
    /\ pc = "solver"
    /\ \E info \in SolverInfos :
          /\ heap' = SolverWrite(heap, {l.beta, l.delta, l.work, l.iwork})
          /\ l' = [l EXCEPT !.info = info]
    /\ log' = Append(log, Called("solver", <<l.beta, l.delta, l.work, l.iwork>>))
    /\ pc' = After("solver")
    /\ UNCHANGED <<pure, entry, a, err, results, snap, spent>>

\* the fields of OdrResult that are arrays
ArrayFields ==
    {"beta", "delta", "eps", "xplus", "yest", "sd_beta", "cov_beta", "iwork", "work"}

\* the arrays of a result as they are on heap h, and the job code and the
\* number of parameters of the call that returned it
Snapshot(h, res, args, ent) ==
    [job |-> args.job, npar |-> res.beta.len,
     beta0 |-> [id |-> args.beta0, data |-> ent[args.beta0].data],
     delta0 |-> [id |-> args.delta0,
                 data |-> IF args.delta0 = 0 THEN <<>> ELSE ent[args.delta0].data],
     beta |-> RefVal(h, res.beta), delta |-> RefVal(h, res.delta),
     eps |-> RefVal(h, res.eps), xplus |-> RefVal(h, res.xplus),
     yest |-> RefVal(h, res.yest), sd_beta |-> RefVal(h, res.sd_beta),
     cov_beta |-> RefVal(h, res.cov_beta), iwork |-> RefVal(h, res.iwork),
     work |-> RefVal(h, res.work)]

\* lines 488-529: the result is decoded from the buffers; the heap grows by
\* the arrays made on the way
MakeResult(h, args, loc) ==
    LET status    == Classify(loc.info)
        iwork_idx == diwinf(loc.m, loc.npar, loc.nq)
        work_idx  == dwinf(loc.n, loc.m, loc.npar, loc.nq, loc.ldwe, loc.ld2we,
                           loc.is_odr)
        ysh       == h[args.y].shape
        eps       == SliceCopy(h, loc.work, work_idx.eps, Size(ysh))
        sd        == SliceCopy(eps.heap, loc.work, work_idx.sd, loc.npar)
        cov       == SliceCopy(sd.heap, loc.work, work_idx.vcv, loc.npar * loc.npar)
        h3        == cov.heap
        h4        == AddArrays(h3, h3[args.x].shape, h3[args.x].data,
                               h3[loc.delta].data)
        h5        == AddArrays(h4, ysh, h4[args.y].data, RefVal(h4, eps.ref))
    IN  [heap |-> h5,
         result |->
           [beta |-> Whole(h5, loc.beta),
            delta |-> Whole(h5, loc.delta),
            eps |-> Reshape(eps.ref, ysh),
            xplus |-> Whole(h5, Len(h4)),
            yest |-> Whole(h5, Len(h5)),
            sd_beta |-> sd.ref,
            cov_beta |-> Reshape(cov.ref, <<loc.npar, loc.npar>>),
            res_var |-> At(h5, loc.work, work_idx.rvar),
            info |-> status.info,
            stopreason |-> status.stopreason,
            success |-> status.success,
            nfev |-> At(h5, loc.iwork, iwork_idx.nfev),
            njev |-> At(h5, loc.iwork, iwork_idx.njev),
            niter |-> At(h5, loc.iwork, iwork_idx.niter),
            irank |-> At(h5, loc.iwork, iwork_idx.irank),
            inv_condnum |-> At(h5, loc.work, work_idx.rcond),
            sum_square |-> At(h5, loc.work, work_idx.wss),
            sum_square_delta |-> At(h5, loc.work, work_idx.wssde),
            sum_square_eps |-> At(h5, loc.work, work_idx.wssep),
            iwork |-> Whole(h5, loc.iwork),
            work |-> Whole(h5, loc.work)]]

Return ==
    /\ pc = "result"
    /\ LET r == MakeResult(heap, a, l)
       IN  /\ heap' = r.heap
           /\ results' = Append(results, r.result)
           /\ snap' = Append(snap, Snapshot(r.heap, r.result, a, entry))
    /\ pc' = After("result")
    /\ UNCHANGED <<pure, entry, a, l, err, log, spent>>

Next ==
    \/ Begin
    \/ Lower \/ Upper \/ Ifixb \/ Stpb \/ Sclb
    \/ Delta0
    \/ Ifixx \/ Stpd \/ Scld
    \/ We \/ Wd
    \/ F \/ Fjacb \/ Fjacd
    \/ Work
    \/ Solver
    \/ Return

Spec == Init /\ [][Next]_vars

(***************************************************************************)
(* The blocks that check ifixx, stpd and scld, on their own: lines 325-368 *)
(* read the array, x.shape, m and n only, so they are examined for every   *)
(* x of rank 1 or 2 and every array of rank 1 or 2 with axes up to         *)
(* MaxAxis.                                                                *)
(***************************************************************************)
AxisShapes ==
    {<<d>> : d \in 0..MaxAxis} \cup {<<d, e>> : d, e \in 0..MaxAxis}

InitBroadcast ==
    /\ probe \in [x : AxisShapes, arr : AxisShapes]
    /\ out = <<>>
    /\ pc = "pure"
    /\ heap = <<>> /\ entry = <<>>
    /\ a = A0 /\ l = L0 /\ err = NoErr
    /\ log = <<>> /\ results = <<>> /\ snap = <<>> /\ spent = 0

\* the block of argument arg applied to the probe, with m and n as lines
\* 263-284 take them from x
Broadcast(arg) ==
    /\ pc = "pure" /\ out = <<>>
    /\ LET r == ResolveShapes(probe.x, <<LastAxis(probe.x)>>, <<1>>)
       IN  out' = [arg |-> arg,
                   res |-> CheckBroadcast(Arr(probe.arr), probe.x, r.m, r.n)]
    /\ UNCHANGED <<heap, entry, pc, a, l, err, log, results, snap, spent, probe>>

\* lines 325-338
BroadcastIfixx == Broadcast("ifixx")
\* lines 340-353
BroadcastStpd == Broadcast("stpd")
\* lines 355-368
BroadcastScld == Broadcast("scld")

NextBroadcast == BroadcastIfixx \/ BroadcastStpd \/ BroadcastScld

SpecBroadcast == InitBroadcast /\ [][NextBroadcast]_vars

(***************************************************************************)
(* The same blocks applied to a reduced rank-1 array and to the (m, n)     *)
(* array it stands for.  x has shape (m, n); v has length n (one entry per *)
(* observation, axis "n") or length m (one entry per dimension, axis "m"), *)
(* with entries 0 and 1 as in a mask.                                      *)
(***************************************************************************)
TileProbes ==
    UNION {{[x |-> <<m, n>>, axis |-> "n", v |-> d] : d \in [1..n -> 0..1]}
           \cup {[x |-> <<m, n>>, axis |-> "m", v |-> d] : d \in [1..m -> 0..1]}
              : m \in 0..MaxAxis, n \in 0..MaxAxis}

\* the (m, n) array that repeats v along the other axis, row-major
Materialized(v, axis, m, n) ==
    [given |-> TRUE, shape |-> <<m, n>>,
     data  |-> [k \in 1..(m*n) |->
                  IF axis = "n" THEN v[((k - 1) % n) + 1]
                  ELSE v[((k - 1) \div n) + 1]]]

InitTile ==
    /\ probe \in TileProbes
    /\ out = <<>>
    /\ pc = "pure"
    /\ heap = <<>> /\ entry = <<>>
    /\ a = A0 /\ l = L0 /\ err = NoErr
    /\ log = <<>> /\ results = <<>> /\ snap = <<>> /\ spent = 0

\* the block of argument arg applied to v and to the array v stands for
Tile(arg) ==
    /\ pc = "pure" /\ out = <<>>
    /\ LET m == probe.x[1]
           n == probe.x[2]
       IN  out' = [arg |-> arg,
                   reduced |-> CheckBroadcast(ArrData(probe.v), probe.x, m, n),
                   full |-> CheckBroadcast(Materialized(probe.v, probe.axis, m, n),
                                           probe.x, m, n)]
    /\ UNCHANGED <<heap, entry, pc, a, l, err, log, results, snap, spent, probe>>

\* lines 325-338
TileIfixx == Tile("ifixx")
\* lines 340-353
TileStpd == Tile("stpd")
\* lines 355-368
TileScld == Tile("scld")

NextTile == TileIfixx \/ TileStpd \/ TileScld

SpecTile == InitTile /\ [][NextTile]_vars

(***************************************************************************)
(* The blocks that check we and wd, on their own: lines 370-424 read the   *)
(* weight, n and nq (we) or m (wd) only, so they are examined for every n  *)
(* and q in 1..MaxAxis and every weight: None, a scalar, another object,   *)
(* or an array of rank 1 to 3 with axes in 1..MaxAxis.                     *)
(***************************************************************************)
WeightAxisShapes ==
    {<<d>> : d \in 1..MaxAxis}
    \cup {<<d, e>> : d, e \in 1..MaxAxis}
    \cup {<<d, e, g>> : d, e, g \in 1..MaxAxis}

InitWeight ==
    /\ probe \in [q : 1..MaxAxis, n : 1..MaxAxis,
                   w : {NoneW, ScalarW, OtherW}
                       \cup {ArrayW(sh) : sh \in WeightAxisShapes}]
    /\ out = <<>>
    /\ pc = "pure"
    /\ heap = <<>> /\ entry = <<>>
    /\ a = A0 /\ l = L0 /\ err = NoErr
    /\ log = <<>> /\ results = <<>> /\ snap = <<>> /\ spent = 0

\* the block of weight arg applied to the probe
Weight(arg) ==
    /\ pc = "pure" /\ out = <<>>
    /\ out' = [arg |-> arg, res |-> CheckWeight(probe.w, probe.q, probe.n)]
    /\ UNCHANGED <<heap, entry, pc, a, l, err, log, results, snap, spent, probe>>

\* lines 370-396, q = nq
WeightWe == Weight("we")
\* lines 398-424, q = m
WeightWd == Weight("wd")

NextWeight == WeightWe \/ WeightWd

SpecWeight == InitWeight /\ [][NextWeight]_vars

\* ---- job decoding on its own ----

\* digit values of the probes: both sides of the thresholds 2, 1 and 0, and 9
DigitVals == {0, 1, 2, 9}

\* the job code written with the decimal digits ds, ds[1] the rightmost
RECURSIVE JobOf(_)
JobOf(ds) == IF ds = <<>> THEN 0 ELSE ds[1] + 10 * JobOf(Tail(ds))

\* the digits of a job code as a sequence
DigitSeq(f) == [k \in 1..MaxDigitPos |-> f[k]]

\* probe: a job code by its digits, and a change of its digit k to d
InitJob ==
    /\ probe \in [digits : {DigitSeq(f) : f \in [1..MaxDigitPos -> DigitVals]},
                   k : 1..MaxDigitPos, d : DigitVals]
    /\ out = <<>>
    /\ pc = "pure"
    /\ heap = <<>> /\ entry = <<>>
    /\ a = A0 /\ l = L0 /\ err = NoErr
    /\ log = <<>> /\ results = <<>> /\ snap = <<>> /\ spent = 0

\* lines 257-261 applied to the job code and to the changed job code
InterpretJob ==
    /\ pc = "pure" /\ out = <<>>
    /\ out' = [job     |-> JobOf(probe.digits),
               flags   |-> JobFlags(JobOf(probe.digits)),
               changed |-> JobFlags(JobOf([probe.digits EXCEPT ![probe.k] = probe.d]))]
    /\ UNCHANGED <<heap, entry, pc, a, l, err, log, results, snap, spent, probe>>

NextJob == InterpretJob

SpecJob == InitJob /\ [][NextJob]_vars

\* ---- status classification on its own ----

\* probe: a status code handed back by the solver
InitInfo ==
    /\ probe \in [info : (0 - MaxInfo)..MaxInfo]
    /\ out = <<>>
    /\ pc = "pure"
    /\ heap = <<>> /\ entry = <<>>
    /\ a = A0 /\ l = L0 /\ err = NoErr
    /\ log = <<>> /\ results = <<>> /\ snap = <<>> /\ spent = 0

\* lines 514-516 applied to the status code; no statement after the solver
\* call raises
ClassifyInfo ==
    /\ pc = "pure" /\ out = <<>>
    /\ out' = Classify(probe.info)
    /\ UNCHANGED <<heap, entry, pc, a, l, err, log, results, snap, spent, probe>>

NextInfo == ClassifyInfo

SpecInfo == InitInfo /\ [][NextInfo]_vars

\* ---- concurrent calls ----

\* the calls that run concurrently (threads of one process: one heap)
Calls == 1..MaxCalls

\* the fields of OdrResult that are scalars
ScalarFields == {"res_var", "info", "stopreason", "success", "nfev", "njev",
                 "niter", "irank", "inv_condnum", "sum_square",
                 "sum_square_delta", "sum_square_eps"}

\* a result by value: the cells of its arrays and its scalars
ResultValue(h, res, args, ent) ==
    [arrays  |-> Snapshot(h, res, args, ent),
     scalars |-> [fld \in ScalarFields |-> res[fld]]]

\* the arrays the solver writes, in the order the model lets it write them
SolverTargets(loc) == <<loc.beta, loc.delta, loc.work, loc.iwork>>

\* a call about to enter odr with arguments args; info is the status code
\* the solver will return for this problem
CallStart(args, info) ==
    [pc |-> "begin", a |-> args, l |-> L0, err |-> NoErr, written |-> 0,
     solver_info |-> info, res |-> <<>>, value |-> <<>>]

\* block stage of call st ends with error e or goes on with the locals loc
Proceed(st, stage, e, loc) ==
    [st EXCEPT !.pc  = IF e = NoError THEN After(stage) ELSE "raised",
               !.err = IF e = NoError THEN st.err ELSE [kind |-> e, at |-> stage],
               !.l   = loc]

\* call st returns r, the result with the heap it was decoded on
Returned(h, st, r) ==
    [heap |-> r.heap,
     st |-> [Proceed(st, "result", NoError, st.l)
               EXCEPT !.res = r.result,
                      !.value = ResultValue(r.heap, r.result, st.a, h)]]

\* one step of a call of odr on heap h: the block at st.pc (lines 257-529);
\* the solver takes one step per array it writes, since it calls back into
\* f while it runs
CallStep(h, st) ==
    LET args == st.a
        loc  == st.l
        xsh  == h[args.x].shape
        same == [heap |-> h, st |-> st]
        on(stage, e, loc2) == [heap |-> h, st |-> Proceed(st, stage, e, loc2)]
    IN  CASE st.pc = "begin" ->
               LET r  == ResolveShapes(xsh, h[args.y].shape, h[args.beta0].shape)
                   fl == JobFlags(args.job)
                   cp == beta0_copy(h, args.beta0)
                   l1 == [loc EXCEPT !.is_odr = fl.is_odr, !.has_jac = fl.has_jac,
                                     !.has_delta0 = fl.has_delta0,
                                     !.is_restart = fl.is_restart]
               IN  IF r.err # NoError THEN on("begin", r.err, l1)
                   ELSE [heap |-> cp.heap,
                         st |-> Proceed(st, "begin", NoError,
                                        [l1 EXCEPT !.m = r.m, !.nq = r.nq, !.n = r.n,
                                                   !.npar = r.npar, !.beta = cp.id])]
          [] st.pc = "lower" -> on("lower", CheckLower(args.lower, h[args.beta0]), loc)
          [] st.pc = "upper" -> on("upper", CheckUpper(args.upper, h[args.beta0]), loc)
          [] st.pc = "ifixb" ->
               on("ifixb", CheckSameShape(args.ifixb, h[args.beta0].shape), loc)
          [] st.pc = "stpb" ->
               on("stpb", CheckSameShape(args.stpb, h[args.beta0].shape), loc)
          [] st.pc = "sclb" ->
               on("sclb", CheckSameShape(args.sclb, h[args.beta0].shape), loc)
          [] st.pc = "delta0" ->
               LET c    == CheckDelta0(loc.has_delta0, args.delta0 # 0,
                                       IF args.delta0 # 0 THEN h[args.delta0].shape
                                       ELSE <<>>, xsh)
                   made == IF c.from = "copy" THEN delta0_copy(h, args.delta0)
                           ELSE IF c.from = "zeros" THEN zeros(h, xsh)
                           ELSE [heap |-> h, id |-> 0]
               IN  [heap |-> made.heap,
                    st |-> Proceed(st, "delta0", c.err, [loc EXCEPT !.delta = made.id])]
          [] st.pc = "ifixx" ->
               LET c == CheckBroadcast(args.ifixx, xsh, loc.m, loc.n)
               IN  on("ifixx", c.err, [loc EXCEPT !.ldifx = c.ld, !.ifixx = c.arr])
          [] st.pc = "stpd" ->
               LET c == CheckBroadcast(args.stpd, xsh, loc.m, loc.n)
               IN  on("stpd", c.err, [loc EXCEPT !.ldstpd = c.ld, !.stpd = c.arr])
          [] st.pc = "scld" ->
               LET c == CheckBroadcast(args.scld, xsh, loc.m, loc.n)
               IN  on("scld", c.err, [loc EXCEPT !.ldscld = c.ld, !.scld = c.arr])
          [] st.pc = "we" ->
               LET c == CheckWeight(args.we, loc.nq, loc.n)
               IN  on("we", c.err, [loc EXCEPT !.ldwe = c.ld, !.ld2we = c.ld2, !.we = c.w])
          [] st.pc = "wd" ->
               LET c == CheckWeight(args.wd, loc.m, loc.n)
               IN  on("wd", c.err, [loc EXCEPT !.ldwd = c.ld, !.ld2wd = c.ld2, !.wd = c.w])
          [] st.pc = "f" -> on("f", CheckF(args.f, h[args.y].shape), loc)
          [] st.pc = "fjacb" ->
               LET c == CheckJac(loc.has_jac, args.fjacb, loc.n, loc.npar, loc.nq)
               IN  on("fjacb", c.err, [loc EXCEPT !.fjacb = c.fn])
          [] st.pc = "fjacd" ->
               LET c == CheckJac(loc.has_jac, args.fjacd, loc.n, loc.m, loc.nq)
               IN  on("fjacd", c.err, [loc EXCEPT !.fjacd = c.fn])
          [] st.pc = "work" ->
               LET dims == workspace_dimensions(loc.n, loc.m, loc.npar, loc.nq, loc.is_odr)
                   c    == CheckWork(loc.is_restart, args.work # 0, args.iwork # 0,
                                     IF args.work # 0 THEN Len(h[args.work].data) ELSE 0,
                                     IF args.iwork # 0 THEN Len(h[args.iwork].data) ELSE 0,
                                     dims[1], dims[2])
                   zw   == zeros(h, <<dims[1]>>)
                   zi   == zeros(zw.heap, <<dims[2]>>)
               IN  [heap |-> IF c.alloc THEN zi.heap ELSE h,
                    st |-> Proceed(st, "work", c.err,
                              [loc EXCEPT !.lwork = dims[1], !.liwork = dims[2],
                                          !.work = IF c.alloc THEN zw.id ELSE args.work,
                                          !.iwork = IF c.alloc THEN zi.id ELSE args.iwork])]
          [] st.pc = "solver" ->
               LET k  == st.written + 1
                   h1 == SolverWrite(h, {SolverTargets(loc)[k]})
               IN  IF k < Len(SolverTargets(loc))
                   THEN [heap |-> h1, st |-> [st EXCEPT !.written = k]]
                   ELSE [heap |-> h1,
                         st |-> [Proceed(st, "solver", NoError,
                                         [loc EXCEPT !.info = st.solver_info])
                                   EXCEPT !.written = k]]
          [] st.pc = "result" ->
               Returned(h, st, MakeResult(h, args, loc))
          [] OTHER -> same

\* a call run alone from heap h to its end
RECURSIVE RunAlone(_, _)
RunAlone(h, st) ==
    IF st.pc \in {"returned", "raised"} THEN [heap |-> h, st |-> st]
    ELSE LET r == CallStep(h, st) IN RunAlone(r.heap, r.st)

\* the shapes of x and y of the concurrent calls: rank 1 or 2, no empty axis
ConcShapes == {sh \in Rank1 \cup Rank2 : Size(sh) > 0}

\* the job codes of a non-restart call with the other options at default
FreshJobs == {0, 2}

\* the calls share x and y (objects 1 and 2) and have a beta0 each; nothing
\* but job and beta0 differs from the defaults; inf is the status code the
\* solver returns
InitConc ==
    /\ \E xs \in ConcShapes, ys \in ConcShapes, inf \in SolverInfos,
          np \in [Calls -> 1..MaxPar], jb \in [Calls -> FreshJobs] :
          /\ LastAxis(xs) = LastAxis(ys)
          /\ heap = <<Obj(xs, 0), Obj(ys, 0)>>
                      \o [c \in Calls |-> Obj(<<np[c]>>, 1)]
          /\ probe = [c \in Calls |->
                         CallStart([A0 EXCEPT !.job = jb[c], !.x = 1, !.y = 2,
                                              !.beta0 = 2 + c, !.f = ys], inf)]
    /\ out = probe
    /\ entry = heap
    /\ pc = "concurrent"
    /\ a = A0 /\ l = L0 /\ err = NoErr
    /\ log = <<>> /\ results = <<>> /\ snap = <<>> /\ spent = 0

\* the shared heap and the state of call c after its step r
Advance(c, r) ==
    /\ heap' = r.heap
    /\ out' = [out EXCEPT ![c] = r.st]

\* call c takes its next step
StepCall(c) ==
    /\ pc = "concurrent"
    /\ out[c].pc \notin {"returned", "raised"}
    /\ Advance(c, CallStep(heap, out[c]))
    /\ UNCHANGED <<entry, pc, a, l, err, log, results, snap, spent, probe>>

StepAnyCall == \E c \in Calls : StepCall(c)

NextConc == StepAnyCall

SpecConc == InitConc /\ [][NextConc]_vars

(***************************************************************************)
(* The properties.                                                         *)
(***************************************************************************)
\* the blocks of odr in the order of the source text
Stages == <<"begin", "lower", "upper", "ifixb", "stpb", "sclb", "delta0",
            "ifixx", "stpd", "scld", "we", "wd", "f", "fjacb", "fjacd",
            "work", "solver", "result">>

StageNo(stage) == CHOOSE i \in DOMAIN Stages : Stages[i] = stage

\* the call that runs, or the one that ended last, has executed block stage
\* (to its end, or to the exception it raised)
Executed(stage) ==
    IF pc \in {"idle", "pure"} THEN FALSE
    ELSE IF pc = "raised" THEN StageNo(err.at) >= StageNo(stage)
    ELSE IF pc = "returned" THEN TRUE
    ELSE StageNo(pc) > StageNo(stage)

\* the call raised kind in block stage
RaisedAt(stage, kind) == pc = "raised" /\ err = [kind |-> kind, at |-> stage]

\* event e of the running call has happened
InLog(e) == \E i \in DOMAIN log : log[i].fn = e

\* how often e has happened in the running call
Count(e) == Cardinality({i \in DOMAIN log : log[i].fn = e})

\* digit 5 of the job code of the call is set
RestartFlag == _get_digit(a.job, 5) > 0

\* the lengths the call requires of (work, iwork)
Required ==
    workspace_dimensions(l.n, l.m, l.npar, l.nq, _get_digit(a.job, 1) < 2)

\* C1: a call that reaches the buffer block is accepted only in two
\* combinations of restart flag and buffers: flag unset with neither work
\* nor iwork, or flag set with both.  In each of the other six the call
\* raises the inconsistent-argument error there and the solver is not run.
C1_RestartCombinations ==
    Executed("work") =>
        LET valid == \/ ~RestartFlag /\ a.work = 0 /\ a.iwork = 0
                     \/ RestartFlag /\ a.work # 0 /\ a.iwork # 0
        IN  /\ ~valid => RaisedAt("work", Inconsistent) /\ ~InLog("solver")
            /\ InLog("solver") => valid
            /\ (~RestartFlag /\ valid) => pc # "raised"

\* C1 witness: the restart flag is set, only work is supplied, and the call
\* has raised the inconsistent-argument error
C1_Witness ==
    /\ RaisedAt("work", Inconsistent)
    /\ RestartFlag /\ a.work # 0 /\ a.iwork = 0

\* C2: on a restart with both buffers supplied, the call raises the
\* restart-size-mismatch error exactly when len(work) or len(iwork) differs
\* from the length required for the dimensions and the mode of the call;
\* otherwise it goes on to the solver with the supplied buffers.
C2_RestartSizes ==
    (Executed("work") /\ RestartFlag /\ a.work # 0 /\ a.iwork # 0) =>
        LET differs == \/ Len(heap[a.work].data) # Required[1]
                       \/ Len(heap[a.iwork].data) # Required[2]
        IN  /\ differs <=> RaisedAt("work", SizeMismatch)
            /\ ~differs => /\ pc # "raised"
                           /\ l.work = a.work /\ l.iwork = a.iwork
            /\ differs => ~InLog("solver")

\* C2 witness: work has the required length, iwork has not, and the call
\* has raised the size-mismatch error
C2_Witness ==
    /\ RaisedAt("work", SizeMismatch)
    /\ RestartFlag /\ a.work # 0 /\ a.iwork # 0
    /\ Len(heap[a.work].data) = Required[1]
    /\ Len(heap[a.iwork].data) # Required[2]

\* result i came from a fresh call and the call that runs is a restart on
\* its buffers with the same n, m, nq (those of the session) and npar
RestartOn(i) ==
    /\ Executed("work") /\ RestartFlag
    /\ _get_digit(snap[i].job, 5) = 0
    /\ a.work = results[i].work.obj /\ a.iwork = results[i].iwork.obj
    /\ snap[i].npar = l.npar

\* result i and the call that runs have the same mode (ODR or OLS)
SameMode(i) == (_get_digit(snap[i].job, 1) < 2) <=> (_get_digit(a.job, 1) < 2)

\* C3 (as stated): a restart on the work and iwork of the result of a fresh
\* call with the same dimensions never raises the size-mismatch error.
C3_AsStated ==
    \A i \in DOMAIN results :
        RestartOn(i) => ~RaisedAt("work", SizeMismatch)

\* C3 (amended): a restart on the work and iwork of the result of a fresh
\* call with the same dimensions and the same mode (ODR or OLS, digit 1 of
\* job) never raises the size-mismatch error and reaches the solver.
C3_RestartReuse ==
    \A i \in DOMAIN results :
        (RestartOn(i) /\ SameMode(i)) =>
            /\ pc # "raised"
            /\ l.work = results[i].work.obj /\ l.iwork = results[i].iwork.obj

\* C3 witness: such a restart in the same mode has run the solver on the
\* buffers of the earlier result
C3_Witness ==
    \E i \in DOMAIN results :
        RestartOn(i) /\ SameMode(i) /\ InLog("solver") /\ l.npar > 0

\* C4: when a call raises, the solver was not called in it, and every array
\* that existed at its entry or was passed to it (x, y, beta0, delta0, the
\* buffers and the arrays of earlier results) is as it was when the call
\* was entered or, if made later, when it was passed.
C4_NoPartialWrite ==
    pc = "raised" =>
        /\ ~InLog("solver")
        /\ err.kind \in {ShapeMismatch, InvalidBounds, Inconsistent,
                          SizeMismatch, BadType}
        /\ \A id \in DOMAIN entry : heap[id] = entry[id]

\* C4 witness: a restart on the buffers of an earlier result has raised the
\* size-mismatch error
C4_Witness ==
    /\ RaisedAt("work", SizeMismatch)
    /\ \E i \in DOMAIN results :
          a.work = results[i].work.obj /\ a.iwork = results[i].iwork.obj

\* C5: eps, sd_beta and cov_beta of a result keep the values they had when
\* the call returned, whatever happens to the buffers afterwards.
C5_CopiesOfWork ==
    \A i \in DOMAIN results :
        \A fld \in {"eps", "sd_beta", "cov_beta"} :
            /\ RefVal(heap, results[i][fld]) = snap[i][fld]
            /\ results[i][fld].obj \notin {results[i].work.obj, results[i].iwork.obj}

\* C5 witness: the work buffer of a result has been overwritten by a later
\* restart while its eps and sd_beta, which are not empty, are as returned
C5_Witness ==
    \E i \in DOMAIN results :
        /\ RefVal(heap, results[i].work) # snap[i].work
        /\ snap[i].eps # <<>> /\ snap[i].sd_beta # <<>>
        /\ RefVal(heap, results[i].eps) = snap[i].eps

\* C6 (as stated): every array of a returned result keeps its values.
C6_AsStated ==
    \A i \in DOMAIN results :
        \A fld \in ArrayFields : RefVal(heap, results[i][fld]) = snap[i][fld]

\* a later call was handed buffer obj and reached the solver with it
ReusedLater(i, obj) ==
    \/ \E j \in DOMAIN results : j > i /\ obj \in {results[j].work.obj, results[j].iwork.obj}
    \/ InLog("solver") /\ obj \in {a.work, a.iwork} /\ Len(results) >= i

\* C6 (amended): every array of a returned result other than work and
\* iwork keeps its values; work and iwork are the buffers themselves and
\* keep their values unless a later restart is handed them and runs the
\* solver.
C6_ResultStable ==
    \A i \in DOMAIN results :
        /\ \A fld \in ArrayFields \ {"work", "iwork"} :
               RefVal(heap, results[i][fld]) = snap[i][fld]
        /\ \A fld \in {"work", "iwork"} :
               RefVal(heap, results[i][fld]) # snap[i][fld]
                   => ReusedLater(i, results[i][fld].obj)

\* C6 witness: two calls have returned, the second a restart on the buffers
\* of the first, whose iwork is no longer as returned while its beta is
C6_Witness ==
    /\ Len(results) = 2
    /\ results[2].iwork.obj = results[1].iwork.obj
    /\ RefVal(heap, results[1].iwork) # snap[1].iwork
    /\ snap[1].beta # <<>>
    /\ RefVal(heap, results[1].beta) = snap[1].beta

\* digit 4 of the job code of the call is set
Delta0Flag == _get_digit(a.job, 4) > 0

\* C7: delta0 is used only when digit 4 of job is set and delta0 is
\* supplied: the working error is then a new array with the values of
\* delta0, and a delta0 of another shape than x is a shape error.  Flag
\* unset and no delta0: the working error is zeros of the shape of x.  The
\* flag without delta0, or delta0 without the flag, is the
\* inconsistent-argument error.
C7_Delta0Gating ==
    Executed("delta0") =>
        LET given == a.delta0 # 0
            xs    == heap[a.x].shape
            fresh == l.delta # 0 /\ l.delta \notin DOMAIN entry
        IN  /\ (Delta0Flag /\ given /\ heap[a.delta0].shape = xs) =>
                  /\ ~RaisedAt("delta0", ShapeMismatch)
                  /\ ~RaisedAt("delta0", Inconsistent)
                  /\ fresh /\ l.delta # a.delta0
                  /\ ~InLog("solver") => heap[l.delta] = heap[a.delta0]
                  /\ heap[a.delta0] = entry[a.delta0]
            /\ (Delta0Flag /\ given /\ heap[a.delta0].shape # xs) =>
                  RaisedAt("delta0", ShapeMismatch)
            /\ (~Delta0Flag /\ ~given) =>
                  /\ ~RaisedAt("delta0", ShapeMismatch)
                  /\ ~RaisedAt("delta0", Inconsistent)
                  /\ fresh
                  /\ ~InLog("solver") => heap[l.delta] = Obj(xs, 0)
            /\ (Delta0Flag # given) => RaisedAt("delta0", Inconsistent)

\* C7 witness: the solver has run on the copy of a supplied delta0, which
\* has cells; the copy has changed and delta0 has not
C7_Witness ==
    /\ InLog("solver") /\ Delta0Flag /\ a.delta0 # 0
    /\ heap[a.delta0].data # <<>>
    /\ heap[l.delta] # heap[a.delta0]

\* digit 2 of the job code of the call says that the Jacobians are supplied
JacFlag == _get_digit(a.job, 2) > 1

\* C8: a call gets past the Jacobian checks only with the flag set and both
\* fjacb and fjacd supplied, or the flag unset and neither; in a call that
\* reaches the check of a Jacobian, the flag with that Jacobian missing, or
\* that Jacobian without the flag, raises the inconsistent-argument error
\* before the solver is called.
C8_JacobianGating ==
    /\ (Executed("fjacd") /\ ~(pc = "raised" /\ err.at \in {"fjacb", "fjacd"})) =>
           \/ JacFlag /\ a.fjacb.given /\ a.fjacd.given
           \/ ~JacFlag /\ ~a.fjacb.given /\ ~a.fjacd.given
    /\ (Executed("fjacb") /\ (JacFlag # a.fjacb.given)) =>
           RaisedAt("fjacb", Inconsistent) /\ ~InLog("solver")
    /\ (Executed("fjacd") /\ (JacFlag # a.fjacd.given)) =>
           RaisedAt("fjacd", Inconsistent) /\ ~InLog("solver")
    /\ InLog("fjacb") => JacFlag /\ a.fjacb.given
    /\ InLog("fjacd") => JacFlag /\ a.fjacd.given

\* C8 witness: fjacd is supplied without the flag and the call has raised
\* the inconsistent-argument error
C8_Witness ==
    /\ RaisedAt("fjacd", Inconsistent)
    /\ ~JacFlag /\ a.fjacd.given /\ ~a.fjacb.given

\* C9: a lower bound with an element greater than or equal to the element of
\* beta0 at its place, or an upper bound with an element less than or equal
\* to it, raises the invalid-bounds error; a bound of another shape than
\* beta0 raises the shape error.
C9_StrictBounds ==
    /\ (Executed("lower") /\ a.lower.given) =>
          /\ a.lower.shape # heap[a.beta0].shape => RaisedAt("lower", ShapeMismatch)
          /\ (/\ a.lower.shape = heap[a.beta0].shape
              /\ \E i \in DOMAIN a.lower.data :
                     a.lower.data[i] >= entry[a.beta0].data[i])
                => RaisedAt("lower", InvalidBounds)
    /\ (Executed("upper") /\ a.upper.given) =>
          /\ a.upper.shape # heap[a.beta0].shape => RaisedAt("upper", ShapeMismatch)
          /\ (/\ a.upper.shape = heap[a.beta0].shape
              /\ \E i \in DOMAIN a.upper.data :
                     a.upper.data[i] <= entry[a.beta0].data[i])
                => RaisedAt("upper", InvalidBounds)

\* C9 witness: of two parameters one has a lower bound below beta0 and the
\* other a lower bound equal to beta0, and the call has raised the
\* invalid-bounds error
C9_Witness ==
    /\ RaisedAt("lower", InvalidBounds)
    /\ Len(a.lower.data) = 2
    /\ a.lower.data[1] < entry[a.beta0].data[1]
    /\ a.lower.data[2] = entry[a.beta0].data[2]

C11_AsStated ==
    (pc = "pure" /\ out # <<>> /\ out.reduced.err = NoError) =>
        /\ out.full.err = NoError
        /\ out.reduced.ld = out.full.ld
        /\ out.reduced.arr = out.full.arr

\* C11 (amended): for ifixx, stpd and scld, with m > 1 and n # m, an array
\* of shape (n,) gives the same array and the same leading dimension as
\* the (m, n) array it stands for (ld = n); an array of shape (m,) is handed
\* on as it is with ld = 1, while the (m, n) array it stands for is handed
\* on with ld = n and holds, in row j, the entry j of the reduced array.
C11_TileEquivalent ==
    (pc = "pure" /\ out # <<>> /\ out.reduced.err = NoError) =>
        LET m == probe.x[1]
            n == probe.x[2]
        IN  /\ m > 1 /\ n # m
            /\ out.full.err = NoError /\ out.full.ld = n
            /\ out.full.arr.shape = <<m, n>>
            /\ probe.axis = "n" =>
                  /\ out.reduced.ld = out.full.ld
                  /\ out.reduced.arr = out.full.arr
                  /\ \A j \in 1..m, i \in 1..n :
                         out.reduced.arr.data[(j - 1)*n + i] = probe.v[i]
            /\ probe.axis = "m" =>
                  /\ out.reduced.ld = 1
                  /\ out.reduced.arr = ArrData(probe.v)
                  /\ \A j \in 1..m, i \in 1..n :
                         out.full.arr.data[(j - 1)*n + i] = out.reduced.arr.data[j]

\* C11 witness: x has shape (2, 3) and the stpd <<0, 1, 0>> of shape (3,)
\* has been tiled to the rows <<0, 1, 0>>, <<0, 1, 0>>
C11_Witness ==
    /\ pc = "pure" /\ out # <<>>
    /\ probe = [x |-> <<2, 3>>, axis |-> "n", v |-> <<0, 1, 0>>]
    /\ out.arg = "stpd"
    /\ out.reduced.err = NoError
    /\ out.reduced.arr.data = <<0, 1, 0, 0, 1, 0>>

\* a weight array has been through its block
WeightDone == pc = "pure" /\ out # <<>> /\ probe.w.kind = "array"

\* C12: an array we (q = nq) or wd (q = m) is tested against the patterns
\* 1: (q,), 2: (q, q), 3: (q, n) or (n,) with q = 1, 4: (q, 1, 1),
\* (q, 1, n), (q, q, 1), (q, q, n), and gets the descriptor (ld, ld2) of the
\* earliest pattern its shape satisfies, for every n and q; a shape that
\* satisfies none is the shape error.
C12_FirstMatchWins ==
    WeightDone =>
        LET s == probe.w.shape
            q == probe.q
            n == probe.n
            Sat(i) == CASE i = 1 -> s = <<q>>
                        [] i = 2 -> s = <<q, q>>
                        [] i = 3 -> s = <<q, n>> \/ (s = <<n>> /\ q = 1)
                        [] i = 4 -> s \in {<<q, 1, 1>>, <<q, 1, n>>,
                                           <<q, q, 1>>, <<q, q, n>>}
            Desc(i) == CASE i = 1 -> <<1, 1>>
                         [] i = 2 -> <<1, q>>
                         [] i = 3 -> <<n, 1>>
                         [] i = 4 -> <<s[3], s[2]>>
            sat   == {i \in 1..4 : Sat(i)}
            first == CHOOSE i \in sat : \A j \in sat : i <= j
        IN  IF sat = {}
            THEN out.res.err = ShapeMismatch
            ELSE /\ out.res.err = NoError
                 /\ <<out.res.ld, out.res.ld2>> = Desc(first)
                 /\ out.res.w = probe.w

\* C12 witness: n = q = 2 and a wd of shape (2, 2), which satisfies the
\* patterns 2 and 3, has the descriptor of pattern 2
C12_Witness ==
    /\ WeightDone /\ out.arg = "wd"
    /\ probe.q = 2 /\ probe.n = 2 /\ probe.w.shape = <<2, 2>>
    /\ out.res.err = NoError /\ out.res.ld = 1 /\ out.res.ld2 = 2

\* C13 (as stated): a we of shape (nq, n), or a wd of shape (m, n), gets
\* ld = n and ld2 = 1 for all n and q.
C13_AsStated ==
    (WeightDone /\ probe.w.shape = <<probe.q, probe.n>>) =>
        /\ out.res.err = NoError
        /\ out.res.ld = probe.n /\ out.res.ld2 = 1

\* C13 (amended): a we of shape (nq, n), or a wd of shape (m, n), gets
\* ld = n and ld2 = 1 when n # q; when n = q the shape is (q, q) and it gets
\* ld = 1 and ld2 = q, one full weighting matrix for all observations.
C13_PerObservation ==
    (WeightDone /\ probe.w.shape = <<probe.q, probe.n>>) =>
        /\ out.res.err = NoError
        /\ out.res.w = probe.w
        /\ probe.n # probe.q => out.res.ld = probe.n /\ out.res.ld2 = 1
        /\ probe.n = probe.q => out.res.ld = 1 /\ out.res.ld2 = probe.q

\* C13 witness: nq = 2, n = 3 and a we of shape (2, 3) has ld = 3, ld2 = 1
C13_Witness ==
    /\ WeightDone /\ out.arg = "we"
    /\ probe.q = 2 /\ probe.n = 3 /\ probe.w.shape = <<2, 3>>
    /\ out.res.ld = 3 /\ out.res.ld2 = 1

\* C14 (as stated): a we of shape (nq,), or a wd of shape (m,), gets ld = n
\* and ld2 = 1.
C14_AsStated ==
    (WeightDone /\ probe.w.shape = <<probe.q>>) =>
        /\ out.res.err = NoError
        /\ out.res.ld = probe.n /\ out.res.ld2 = 1

\* C14 (amended): a we of shape (nq,), or a wd of shape (m,), gets ld = 1
\* and ld2 = 1 and is handed on as it is.
C14_DiagonalForAll ==
    (WeightDone /\ probe.w.shape = <<probe.q>>) =>
        /\ out.res.err = NoError
        /\ out.res.ld = 1 /\ out.res.ld2 = 1
        /\ out.res.w = probe.w

\* C14 witness: nq = 2, n = 3 and a we of shape (2,) has ld = 1, ld2 = 1
C14_Witness ==
    /\ WeightDone /\ out.arg = "we"
    /\ probe.q = 2 /\ probe.n = 3 /\ probe.w.shape = <<2>>
    /\ out.res.ld = 1 /\ out.res.ld2 = 1

\* C15: the call raises the shape error in its first block, before f or
\* the solver is called, exactly when x is not of rank 1 or 2, y is not of
\* rank 1 or 2, the last axes of x and y differ, or beta0 is not of rank 1;
\* otherwise m is 1 for x of rank 1 and x.shape[0] for rank 2, nq is 1 for y
\* of rank 1 and y.shape[0] for rank 2, n is the common last axis and npar
\* the length of beta0.
C15_ShapeResolution ==
    Executed("begin") =>
        LET xs  == heap[a.x].shape
            ys  == heap[a.y].shape
            bs  == heap[a.beta0].shape
            bad == \/ Len(xs) \notin {1, 2}
                   \/ Len(ys) \notin {1, 2}
                   \/ xs[Len(xs)] # ys[Len(ys)]
                   \/ Len(bs) # 1
        IN  /\ bad <=> (pc = "raised" /\ err.at = "begin")
            /\ bad => RaisedAt("begin", ShapeMismatch) /\ log = <<>>
            /\ ~bad => /\ l.m = (IF Len(xs) = 1 THEN 1 ELSE xs[1])
                       /\ l.nq = (IF Len(ys) = 1 THEN 1 ELSE ys[1])
                       /\ l.n = xs[Len(xs)] /\ l.n = ys[Len(ys)]
                       /\ l.npar = bs[1]

\* C15 witness: x of rank 2 with a y of rank 3 has raised the shape error
C15_Witness ==
    /\ RaisedAt("begin", ShapeMismatch)
    /\ Len(heap[a.x].shape) = 2 /\ Len(heap[a.y].shape) = 3
    /\ Len(heap[a.beta0].shape) = 1

\* C16: whenever the solver is called, n >= 1, m >= 1, npar >= 1 and
\* nq >= 1.
C16_AsStated ==
    InLog("solver") => l.n >= 1 /\ l.m >= 1 /\ l.npar >= 1 /\ l.nq >= 1

\* the blocks that check the array arguments ahead of the model function
ChecksBeforeF ==
    {"begin", "lower", "upper", "ifixb", "stpb", "sclb", "delta0",
     "ifixx", "stpd", "scld", "we", "wd"}

\* the model function has been evaluated by the wrapper, at most once, at
\* (beta0, x), ahead of the solver; a result of another shape than y is the
\* shape error and the solver is not called
FOnceBeforeSolver ==
    /\ Count("f") <= 1
    /\ \A i \in DOMAIN log :
           log[i].fn = "f" => i = 1 /\ log[i].args = <<a.beta0, a.x>>
    /\ InLog("solver") => Count("f") = 1
    /\ (Executed("f") /\ a.f # heap[a.y].shape) =>
           RaisedAt("f", ShapeMismatch) /\ ~InLog("solver")

\* C17 (as stated): the wrapper evaluates f once, at (beta0, x), ahead of
\* the solver, and only in a call in which every check of an array
\* argument passes, those of work and iwork included; a result of another
\* shape than y is an error and the solver is not called.
C17_AsStated ==
    /\ FOnceBeforeSolver
    /\ InLog("f") =>
          ~(pc = "raised" /\ err.at \in ChecksBeforeF \cup {"work"})

\* C17 (amended): the wrapper evaluates f once, at (beta0, x), ahead of the
\* solver, and only after the checks of x, y, beta0, lower, upper, ifixb,
\* stpb, sclb, delta0, ifixx, stpd, scld, we and wd have passed (the checks
\* of the Jacobians and of work and iwork come after it); a result of
\* another shape than y is an error and the solver is not called.
C17_ModelFunctionOnce ==
    /\ FOnceBeforeSolver
    /\ InLog("f") <=> Executed("f")
    /\ InLog("f") => ~(pc = "raised" /\ err.at \in ChecksBeforeF)

\* C17 witness: f has been evaluated once, has returned an array of another
\* shape than y, and the call has raised the shape error
C17_Witness ==
    /\ RaisedAt("f", ShapeMismatch)
    /\ log = <<Called("f", <<a.beta0, a.x>>)>>
    /\ a.f # heap[a.y].shape

\* Jacobian jac (fjacb with p = npar, fjacd with p = m) of the running call,
\* checked in block stage: it is evaluated once when the flag is set and it
\* is supplied, and the call raises the shape error unless its result has a
\* last axis of length n and n*p*nq elements
JacobianChecked(stage, jac, p) ==
    (Executed(stage) /\ JacFlag /\ jac.given) =>
        LET sh  == jac.shape
            bad == sh[Len(sh)] # l.n \/ Size(sh) # l.n * p * l.nq
        IN  /\ Count(stage) = 1
            /\ bad <=> RaisedAt(stage, ShapeMismatch)
            /\ bad => ~InLog("solver")

SpecDigit(job, k) == (job \div (10 ^ (k - 1))) % 10

\* the flag of the record flags that digit k decides (none for 3 and 6)
FlagOfDigit(flags, k) ==
    CASE k = 1 -> flags.is_odr
      [] k = 2 -> flags.has_jac
      [] k = 4 -> flags.has_delta0
      [] k = 5 -> flags.is_restart

\* C19: for every job code, is_odr = (digit 1 < 2), has_jac = (digit 2 > 1),
\* has_delta0 = (digit 4 > 0) and is_restart = (digit 5 > 0), digit k being
\* (job div 10^(k-1)) mod 10; changing one digit of the job code leaves
\* every flag of another digit as it was, and changing digit 3 or a digit
\* above the fifth leaves all four flags as they were.
C19_JobDecoding ==
    (pc = "pure" /\ out # <<>>) =>
        /\ \A k \in 1..MaxDigitPos : SpecDigit(out.job, k) = probe.digits[k]
        /\ out.flags = [is_odr     |-> SpecDigit(out.job, 1) < 2,
                        has_jac    |-> SpecDigit(out.job, 2) > 1,
                        has_delta0 |-> SpecDigit(out.job, 4) > 0,
                        is_restart |-> SpecDigit(out.job, 5) > 0]
        /\ \A k \in {1, 2, 4, 5} \ {probe.k} :
               FlagOfDigit(out.changed, k) = FlagOfDigit(out.flags, k)
        /\ probe.k \notin {1, 2, 4, 5} => out.changed = out.flags

\* C19 witness: a job code with 9 as third and sixth digit and the restart
\* digit set, whose second digit is changed across the threshold, so that
\* has_jac changes and nothing else
C19_Witness ==
    /\ pc = "pure" /\ out # <<>>
    /\ probe.digits[3] = 9 /\ probe.digits[6] = 9 /\ probe.digits[5] = 1
    /\ probe.k = 2 /\ probe.digits[2] = 1 /\ probe.d = 2
    /\ ~out.flags.has_jac /\ out.changed.has_jac /\ out.flags.is_restart

\* the message table of the status codes from 1 on
StatusTable(info) ==
    CASE info = 1 -> "Sum of squares convergence."
      [] info = 2 -> "Parameter convergence."
      [] info = 3 -> "Sum of squares and parameter convergence."
      [] info = 4 -> "Iteration limit reached."
      [] OTHER    ->
         "Questionable results or fatal errors detected. See report and error message."

\* C20: every status code of the solver is returned in the status fields
\* of the result, whatever its value;
\* success is true exactly for the codes below the iteration-limit code 4,
\* which among the codes from 1 on are the three convergence codes 1, 2
\* and 3; the reason is the table entry of the code: codes 1, 2, 3 the
\* three convergence messages, 4 the iteration-limit message, and every
\* code from 5 on the questionable-results/fatal message.
C20_StatusClassification ==
    (pc = "pure" /\ out # <<>>) =>
        /\ DOMAIN out = {"info", "stopreason", "success"}
        /\ out.info = probe.info
        /\ out.success <=> probe.info < 4
        /\ probe.info >= 1 =>
              /\ out.success <=> probe.info \in {1, 2, 3}
              /\ out.stopreason = StatusTable(probe.info)

\* C20 witness: the iteration-limit code is classified as no success with
\* its own message
C20_Witness ==
    /\ pc = "pure" /\ out # <<>>
    /\ probe.info = 4 /\ ~out.success
    /\ out.stopreason = "Iteration limit reached."

\* the caller's array id (0: not supplied) holds the values data
Holds(id, data) == id # 0 => heap[id].data = data

\* C22: no call writes the caller's beta0 or delta0: during a call, after a
\* failing call and after every returned call both arrays hold the values
\* they had when the call was entered; the arrays handed to the solver, and
\* beta and delta of a result, are other objects than beta0 and delta0.
C22_InputsUntouched ==
    /\ pc # "idle" =>
          /\ Holds(a.beta0, entry[a.beta0].data)
          /\ a.delta0 # 0 => Holds(a.delta0, entry[a.delta0].data)
          /\ l.beta # 0 => l.beta \notin {a.beta0, a.delta0}
          /\ l.delta # 0 => l.delta \notin {a.beta0, a.delta0}
    /\ \A i \in DOMAIN results :
          /\ Holds(snap[i].beta0.id, snap[i].beta0.data)
          /\ Holds(snap[i].delta0.id, snap[i].delta0.data)
          /\ results[i].beta.obj \notin {snap[i].beta0.id, snap[i].delta0.id}
          /\ results[i].delta.obj \notin {snap[i].beta0.id, snap[i].delta0.id}

\* C22 witness: a call with a beta0 and a delta0 that have cells has
\* returned; the solver has written beta and delta of the result, which
\* differ from beta0 and delta0
C22_Witness ==
    \E i \in DOMAIN results :
        /\ snap[i].beta0.data # <<>>
        /\ snap[i].delta0.id # 0 /\ snap[i].delta0.data # <<>>
        /\ RefVal(heap, results[i].beta) # snap[i].beta0.data
        /\ RefVal(heap, results[i].delta) # snap[i].delta0.data
        /\ heap[snap[i].beta0.id].data = snap[i].beta0.data

\* the arrays call c has made for the solver so far
Buffers(c) ==
    {out[c].l.beta, out[c].l.delta, out[c].l.work, out[c].l.iwork} \ {0}

\* C21: under every interleaving of concurrent non-restart calls, the
\* arrays a call hands to the solver are its own: none is an array of
\* another call or an array of the caller; when the solver starts, work and
\* iwork are all zeros at the lengths computed for the problem; no call
\* raises, and each call returns the result it returns when run alone.
C21_CallsIsolated ==
    pc = "concurrent" =>
        \A c \in Calls :
            /\ Buffers(c) \cap DOMAIN entry = {}
            /\ \A d \in Calls \ {c} : Buffers(c) \cap Buffers(d) = {}
            /\ (out[c].pc = "solver" /\ out[c].written = 0) =>
                  LET loc  == out[c].l
                      dims == workspace_dimensions(loc.n, loc.m, loc.npar, loc.nq,
                                                   _get_digit(out[c].a.job, 1) < 2)
                  IN  /\ heap[loc.work] = Obj(<<dims[1]>>, 0)
                      /\ heap[loc.iwork] = Obj(<<dims[2]>>, 0)
                      /\ loc.work # loc.iwork
            /\ out[c].pc # "raised"
            /\ out[c].pc = "returned" =>
                  out[c].value = RunAlone(entry, probe[c]).st.value

\* C21 witness: two calls with different job codes have both returned, and
\* each had made its beta before the other allocated its work buffer, so
\* the two calls were interleaved
C21_Witness ==
    /\ pc = "concurrent"
    /\ out[1].pc = "returned" /\ out[2].pc = "returned"
    /\ out[1].a.job # out[2].a.job
    /\ out[1].l.beta < out[2].l.work /\ out[2].l.beta < out[1].l.work
    /\ out[1].value.arrays.work # <<>> /\ out[1].value.arrays.beta # <<>>
    /\ out[1].value # out[2].value

=============================================================================
